---- MODULE Spec2Model ----
(***************************************************************************)
(* Model of the camera vitals scanner, class VitalsScanner of              *)
(* backend/static/js/vitals-scanner.js.                                    *)
(*                                                                         *)
(* JavaScript values are pairs <<n, d>>:                                   *)
(*   d > 0   the finite number n/d in lowest terms,                        *)
(*   d = 0   NaN (n = 0), Infinity (n = 1), -Infinity (n = -1),            *)
(*   d = -1  null,   d = -2  undefined.                                    *)
(* Arithmetic is exact rational arithmetic with the IEEE rules for NaN and *)
(* the infinities; the sign of a zero is not kept (no divisor of the       *)
(* program can be a negative zero: every divisor is a count, a mean of     *)
(* channel values in 0..255, a mean absolute deviation or a positive       *)
(* interval).  A result whose denominator would exceed Precision is        *)
(* rounded to the nearest multiple of 1/Precision, as a floating-point     *)
(* result is rounded to its precision.  Math.sqrt is exact on squares of   *)
(* rationals and otherwise truncated to 1/SqrtScale.                       *)
(* Peak indices, intervals, rates and channel means of the buffers used    *)
(* here are exact; a blood pressure term that lies within 1/Precision of   *)
(* a half can round to the neighbouring integer of the double's.  For the  *)
(* sinusoids of SpecSine the heart rates are those of the doubles; where   *)
(* the filter window is cut by an end of the signal a peak of the doubles  *)
(* can be missing from the peaks found.                                    *)
(***************************************************************************)
EXTENDS Integers, Sequences, FiniteSets, TLC

-----------------------------------------------------------------------------
(* Numbers *)

Null == <<0, -1>>
Undefined == <<0, -2>>
NaN == <<0, 0>>
PosInf == <<1, 0>>
NegInf == <<-1, 0>>

SqrtScale == 100
Precision == 1000

AbsInt(a) == IF a < 0 THEN -a ELSE a

RECURSIVE Gcd(_, _)
Gcd(a, b) == IF b = 0 THEN a ELSE Gcd(b, a % b)

(* n/d for d /= 0: exact while the reduced denominator is at most Precision,
   otherwise rounded to the nearest multiple of 1/Precision *)
Rat(n, d) ==
    LET g == Gcd(AbsInt(n), AbsInt(d))
        s == IF d < 0 THEN -1 ELSE 1
        n1 == (s * n) \div g
        d1 == (s * d) \div g
    IN  IF d1 <= Precision THEN <<n1, d1>>
        ELSE LET q == n1 \div d1
                 f == ((n1 % d1) * Precision + d1 \div 2) \div d1
                 m == q * Precision + f
                 h == Gcd(AbsInt(m), Precision)
             IN  <<m \div h, Precision \div h>>

Num(n) == <<n, 1>>

IsNumber(x) == x[2] >= 0
IsFinite(x) == x[2] > 0
IsInteger(x) == x[2] = 1
Sign(x) == IF x[1] > 0 THEN 1 ELSE IF x[1] < 0 THEN -1 ELSE 0

Neg(x) == <<-x[1], x[2]>>

Add(x, y) ==
    IF x[2] = 1 /\ y[2] = 1 THEN <<x[1] + y[1], 1>>
    ELSE IF x = NaN \/ y = NaN THEN NaN
    ELSE IF x[2] = 0 /\ y[2] = 0 THEN (IF x = y THEN x ELSE NaN)
    ELSE IF x[2] = 0 THEN x
    ELSE IF y[2] = 0 THEN y
    ELSE Rat(x[1] * y[2] + y[1] * x[2], x[2] * y[2])

Sub(x, y) == Add(x, Neg(y))

Mul(x, y) ==
    IF x = NaN \/ y = NaN THEN NaN
    ELSE IF x[2] = 0 \/ y[2] = 0
         THEN (IF Sign(x) * Sign(y) = 0 THEN NaN ELSE <<Sign(x) * Sign(y), 0>>)
    ELSE Rat(x[1] * y[1], x[2] * y[2])

Div(x, y) ==
    IF x = NaN \/ y = NaN THEN NaN
    ELSE IF x[2] = 0 /\ y[2] = 0 THEN NaN
    ELSE IF x[2] = 0 THEN (IF Sign(y) < 0 THEN Neg(x) ELSE x)
    ELSE IF y[2] = 0 THEN Num(0)
    ELSE IF y[1] = 0 THEN (IF x[1] = 0 THEN NaN ELSE <<Sign(x), 0>>)
    ELSE Rat(x[1] * y[2], x[2] * y[1])

Lt(x, y) ==
    IF x = NaN \/ y = NaN \/ x = y THEN FALSE
    ELSE IF x = NegInf \/ y = PosInf THEN TRUE
    ELSE IF x = PosInf \/ y = NegInf THEN FALSE
    ELSE x[1] * y[2] < y[1] * x[2]

Gt(x, y) == Lt(y, x)
Le(x, y) == x /= NaN /\ y /= NaN /\ (x = y \/ Lt(x, y))
Ge(x, y) == Le(y, x)

StrictEq(x, y) == x = y /\ x /= NaN

Truthy(x) == IsNumber(x) /\ x /= NaN /\ x /= Num(0)

MathMax(x, y) == IF x = NaN \/ y = NaN THEN NaN ELSE IF Lt(x, y) THEN y ELSE x
MathMin(x, y) == IF x = NaN \/ y = NaN THEN NaN ELSE IF Lt(y, x) THEN y ELSE x

MathAbs(x) == <<AbsInt(x[1]), x[2]>>

MathRound(x) == IF x[2] = 0 THEN x ELSE Num((2 * x[1] + x[2]) \div (2 * x[2]))

MathFloor(x) == IF x[2] = 0 THEN x ELSE Num(x[1] \div x[2])

RECURSIVE ISqrtBetween(_, _, _)
ISqrtBetween(v, lo, hi) ==
    IF hi - lo <= 1 THEN lo
    ELSE LET mid == (lo + hi) \div 2
         IN  IF mid * mid <= v THEN ISqrtBetween(v, mid, hi)
             ELSE ISqrtBetween(v, lo, mid)

ISqrt(v) == ISqrtBetween(v, 0, IF v < 46340 THEN v + 1 ELSE 46340)

MathSqrt(x) ==
    IF x = NaN \/ x = NegInf THEN NaN
    ELSE IF x = PosInf THEN PosInf
    ELSE IF x[1] < 0 THEN NaN
    ELSE LET r == ISqrt(x[1])
             s == ISqrt(x[2])
         IN  IF r * r = x[1] /\ s * s = x[2] THEN Rat(r, s)
             ELSE Rat(ISqrt((x[1] * SqrtScale * SqrtScale) \div x[2]), SqrtScale)

(* parseFloat(x.toFixed(1)): one decimal, a half rounded away from zero *)
ToFixed1(x) ==
    IF x[2] = 0 THEN x
    ELSE LET m == (20 * AbsInt(x[1]) + x[2]) \div (2 * x[2])
         IN  Rat(Sign(x) * m, 10)

-----------------------------------------------------------------------------
(* Scanning parameters *)

scanDuration == 45
frameRate == 30

-----------------------------------------------------------------------------
(* Signal processing utilities *)

(* arr.reduce((a, b) => a + b, 0); the additions are grouped in halves so that
   the evaluation depth stays logarithmic in the length *)
RECURSIVE SumRange(_, _, _)
SumRange(arr, lo, hi) ==
    IF lo > hi THEN Num(0)
    ELSE IF lo = hi THEN arr[lo]
    ELSE LET mid == (lo + hi) \div 2
         IN  Add(SumRange(arr, lo, mid), SumRange(arr, mid + 1, hi))

SumOf(arr) == Add(Num(0), SumRange(arr, 1, Len(arr)))

calculateMean(arr) == Div(SumOf(arr), Num(Len(arr)))

calculateVariance(arr) ==
    LET mean == calculateMean(arr)
        squaredDiffs == [i \in 1..Len(arr) |-> Mul(Sub(arr[i], mean), Sub(arr[i], mean))]
    IN  calculateMean(squaredDiffs)

calculateStdDev(arr) ==
    LET mean == calculateMean(arr)
        squaredDiffs == [i \in 1..Len(arr) |-> Mul(Sub(arr[i], mean), Sub(arr[i], mean))]
    IN  MathSqrt(calculateMean(squaredDiffs))

calculateAC(signal) ==
    LET mean == calculateMean(signal)
        deviations == [i \in 1..Len(signal) |-> MathAbs(Sub(signal[i], mean))]
    IN  Div(SumOf(deviations), Num(Len(deviations)))

calculateDC(signal) == calculateMean(signal)

MaxInt(a, b) == IF a > b THEN a ELSE b
MinInt(a, b) == IF a < b THEN a ELSE b

(* signal[j] of the code is signal[j + 1] here; indices in results are the code's *)
bandpassFilter(signal, lowFreq, highFreq, sampleRate) ==
    LET windowSize == MathFloor(Div(sampleRate, lowFreq))[1]
        n == Len(signal)
    IN  [k \in 1..n |->
            LET i == k - 1
                lo == MaxInt(0, i - windowSize)
                hi == MinInt(n - 1, i + windowSize)
                window == [j \in 1..(hi - lo + 1) |-> signal[lo + j]]
                sum == SumOf(window)
                count == Num(Len(window))
            IN  Sub(signal[k], Div(sum, count))]

RECURSIVE Ascending(_)
Ascending(S) ==
    IF S = {} THEN <<>>
    ELSE LET m == CHOOSE x \in S : \A y \in S : x <= y
         IN  <<m>> \o Ascending(S \ {m})

(* a variant of the test that takes the first sample of a flat top too *)
LocalMaxima_FlatTop(signal, threshold) ==
    {i \in 1..(Len(signal) - 2) :
        /\ Gt(signal[i + 1], signal[i])
        /\ Ge(signal[i + 1], signal[i + 2])
        /\ Gt(signal[i + 1], threshold)}

(* the indices i the loop  for (i = 1; i < signal.length - 1; i++)  tests true:
   a local maximum above threshold *)
LocalMaxima(signal, threshold) ==
    {i \in 1..(Len(signal) - 2) :
        /\ Gt(signal[i + 1], signal[i])
        /\ Gt(signal[i + 1], signal[i + 2])
        /\ Gt(signal[i + 1], threshold)}

findPeaks(signal) ==
    LET threshold == Add(calculateMean(signal), Mul(calculateStdDev(signal), Rat(1, 2)))
    IN  Ascending(LocalMaxima(signal, threshold))

(* the loop of findPeaksWithMinDistance over the local maxima, in index order *)
RECURSIVE MinDistanceLoop(_, _, _, _, _)
MinDistanceLoop(candidates, minDistance, k, lastPeakIndex, peaks) ==
    IF k > Len(candidates) THEN peaks
    ELSE IF candidates[k] - lastPeakIndex >= minDistance
         THEN MinDistanceLoop(candidates, minDistance, k + 1, candidates[k],
                              Append(peaks, candidates[k]))
         ELSE MinDistanceLoop(candidates, minDistance, k + 1, lastPeakIndex, peaks)

(* a variant whose lastPeakIndex starts at 0 *)
findPeaksWithMinDistance_FromZero(signal, threshold, minDistance) ==
    MinDistanceLoop(Ascending(LocalMaxima(signal, threshold)), minDistance, 1, 0, <<>>)

findPeaksWithMinDistance(signal, threshold, minDistance) ==
    MinDistanceLoop(Ascending(LocalMaxima(signal, threshold)), minDistance, 1,
                    -minDistance, <<>>)

PeakIntervals(peaks) == [i \in 1..(Len(peaks) - 1) |-> Num(peaks[i + 1] - peaks[i])]

-----------------------------------------------------------------------------
(* Estimators.  frames is a sequence of [timestamp, r, g, b]. *)

Channel(fr, c) == [i \in 1..Len(fr) |-> fr[i][c]]

InRange(x, lo, hi) == Ge(x, Num(lo)) /\ Le(x, Num(hi))

(* lines 449-452 of detectHeartRate and 587-588 of estimateBloodPressure: the
   filtered signal and its peaks, the same in both *)
PulsePeaks(signal) ==
    LET filtered == bandpassFilter(signal, Rat(7, 10), Num(4), Num(frameRate))
    IN  [filtered |-> filtered, peaks |-> findPeaks(filtered)]

(* variant of detectHeartRate without the validation of the range *)
detectHeartRate_NoValidation(peaks) ==
    IF Len(peaks) < 2 THEN Null
    ELSE LET intervals == PeakIntervals(peaks)
             avgInterval == Div(SumOf(intervals), Num(Len(intervals)))
         IN  MathRound(Div(Num(60 * frameRate), avgInterval))

(* detectHeartRate from its peaks on *)
detectHeartRate(peaks) ==
    IF Len(peaks) < 2 THEN Null
    ELSE LET intervals == PeakIntervals(peaks)
             avgInterval == Div(SumOf(intervals), Num(Len(intervals)))
             bpm == MathRound(Div(Num(60 * frameRate), avgInterval))
         IN  IF Ge(bpm, Num(40)) /\ Le(bpm, Num(180)) THEN bpm ELSE Null

(* variant of estimateSpO2 that answers null, as detectHeartRate does, when the
   value is out of range *)
estimateSpO2_NullOutOfRange(fr) ==
    LET redSignal == Channel(fr, "r")
        greenSignal == Channel(fr, "g")
        redDC == calculateDC(redSignal)
        greenDC == calculateDC(greenSignal)
    IN  IF StrictEq(redDC, Num(0)) \/ StrictEq(greenDC, Num(0)) THEN Null
        ELSE LET ratio == Div(Div(calculateAC(redSignal), redDC),
                              Div(calculateAC(greenSignal), greenDC))
                 spo2 == MathRound(Sub(Num(110), Mul(Num(25), ratio)))
             IN  IF Ge(spo2, Num(85)) /\ Le(spo2, Num(100)) THEN spo2 ELSE Null

estimateSpO2(fr) ==
    LET redSignal == Channel(fr, "r")
        greenSignal == Channel(fr, "g")
        redAC == calculateAC(redSignal)
        redDC == calculateDC(redSignal)
        greenAC == calculateAC(greenSignal)
        greenDC == calculateDC(greenSignal)
    IN  IF StrictEq(redDC, Num(0)) \/ StrictEq(greenDC, Num(0)) THEN Null
        ELSE LET ratio == Div(Div(redAC, redDC), Div(greenAC, greenDC))
                 spo2 == MathRound(Sub(Num(110), Mul(Num(25), ratio)))
             IN  IF Ge(spo2, Num(85)) /\ Le(spo2, Num(100)) THEN spo2 ELSE Num(97)

(* lines 496-505 of detectRespiratoryRate: the breathing peaks *)
BreathPeaks(signal) ==
    LET lowFreqFiltered == bandpassFilter(signal, Rat(2, 10), Rat(5, 10), Num(frameRate))
        mean == calculateMean(lowFreqFiltered)
        stdDev == calculateStdDev(lowFreqFiltered)
        threshold == Add(mean, Mul(stdDev, Rat(15, 10)))
        minPeakDistance == MathFloor(Mul(Num(frameRate), Rat(15, 10)))[1]
    IN  findPeaksWithMinDistance(lowFreqFiltered, threshold, minPeakDistance)

(* the outlier filter of detectRespiratoryRate *)
FilteredIntervals(intervals) ==
    LET avgInterval == Div(SumOf(intervals), Num(Len(intervals)))
    IN  SelectSeq(intervals,
                  LAMBDA interval :
                      /\ Gt(interval, Mul(avgInterval, Rat(5, 10)))
                      /\ Lt(interval, Mul(avgInterval, Rat(15, 10))))

(* variant of detectRespiratoryRate without the saturation at 8 *)
detectRespiratoryRate_NoFloor(peaks) ==
    IF Len(peaks) < 3 THEN Num(14)
    ELSE LET filteredIntervals == FilteredIntervals(PeakIntervals(peaks))
         IN  IF Len(filteredIntervals) < 2 THEN Num(14)
             ELSE MathMin(Num(25),
                          MathRound(Div(Num(60 * frameRate),
                                        calculateMean(filteredIntervals))))

(* detectRespiratoryRate from its peaks on *)
detectRespiratoryRate(peaks) ==
    IF Len(peaks) < 3 THEN Num(14)
    ELSE LET filteredIntervals == FilteredIntervals(PeakIntervals(peaks))
         IN  IF Len(filteredIntervals) < 2 THEN Num(14)
             ELSE LET finalAvgInterval ==
                          Div(SumOf(filteredIntervals), Num(Len(filteredIntervals)))
                      breathsPerMin ==
                          MathRound(Div(Num(60 * frameRate), finalAvgInterval))
                  IN  IF Lt(breathsPerMin, Num(8)) THEN Num(8)
                      ELSE IF Gt(breathsPerMin, Num(25)) THEN Num(25)
                      ELSE breathsPerMin

estimateTemperature(fr) ==
    LET avgRed == Div(SumOf(Channel(fr, "r")), Num(Len(fr)))
        avgGreen == Div(SumOf(Channel(fr, "g")), Num(Len(fr)))
        ratio == Div(avgRed, avgGreen)
        tempCelsius == Add(Num(36), Mul(Sub(ratio, Num(1)), Num(2)))
    IN  MathMax(Rat(355, 10), MathMin(Rat(385, 10), ToFixed1(tempCelsius)))

RECURSIVE MaxFrom(_, _, _)
MaxFrom(arr, i, acc) == IF i > Len(arr) THEN acc ELSE MaxFrom(arr, i + 1, MathMax(acc, arr[i]))
RECURSIVE MinFrom(_, _, _)
MinFrom(arr, i, acc) == IF i > Len(arr) THEN acc ELSE MinFrom(arr, i + 1, MathMin(acc, arr[i]))

(* Math.max(...arr), Math.min(...arr) *)
MaxOf(arr) == MaxFrom(arr, 1, NegInf)
MinOf(arr) == MinFrom(arr, 1, PosInf)

(* variant of Clamp that forgets Math.min: no upper bound *)
Clamp_NoUpper(lo, hi, x) == MathMax(lo, x)

Clamp(lo, hi, x) == MathMax(lo, MathMin(hi, x))

(* the pulse wave characteristics estimateBloodPressure derives from the peaks *)
PulseWave(filtered, peaks) ==
    LET intervals == PeakIntervals(peaks)
        avgInterval == Div(SumOf(intervals), Num(Len(intervals)))
        variance == calculateVariance(intervals)
        heartRate == MathRound(Div(Num(60 * frameRate), avgInterval))
        peakValues == [i \in 1..Len(peaks) |-> filtered[peaks[i] + 1]]
        avgPeakAmplitude == Div(SumOf(peakValues), Num(Len(peakValues)))
        maxAmplitude == MaxOf(peakValues)
        minAmplitude == MinOf(peakValues)
        normalizedAmplitude ==
            IF Gt(maxAmplitude, minAmplitude)
            THEN Div(Sub(avgPeakAmplitude, minAmplitude), Sub(maxAmplitude, minAmplitude))
            ELSE Rat(5, 10)
        squaredDiffs ==
            [i \in 1..(Len(intervals) - 1) |->
                Mul(Sub(intervals[i + 1], intervals[i]), Sub(intervals[i + 1], intervals[i]))]
        rmssd == MathSqrt(Div(SumOf(squaredDiffs), Num(Len(squaredDiffs))))
    IN  [heartRate |-> heartRate, variance |-> variance,
         normalizedAmplitude |-> normalizedAmplitude, rmssd |-> rmssd]

(* lines 621-663 of estimateBloodPressure; random1, random2 are the two
   Math.random() draws, in [0, 1) *)
BloodPressureFromWave(pw, random1, random2) ==
    LET normalHR == Num(70)
        hrDeviation == Sub(pw.heartRate, normalHR)
        hrFactor == Clamp(Num(-15), Num(15), Mul(hrDeviation, Rat(3, 10)))
        normalRMSSD == Num(30)
        hrvDeviation == Sub(normalRMSSD, pw.rmssd)
        hrvFactor == Clamp(Num(-10), Num(10), Mul(hrvDeviation, Rat(2, 10)))
        amplitudeFactor == Mul(Sub(pw.normalizedAmplitude, Rat(5, 10)), Num(10))
        varianceFactor == Clamp(Num(-5), Num(5), Mul(pw.variance, Num(3)))
        randomFactor == Mul(Sub(random1, Rat(5, 10)), Num(6))
        systolic ==
            MathRound(Add(Add(Add(Add(Add(Num(120), hrFactor), hrvFactor),
                                  amplitudeFactor), varianceFactor), randomFactor))
        diastolicRatio == Add(Rat(65, 100), Mul(Sub(random2, Rat(5, 10)), Rat(1, 10)))
        diastolic == MathRound(Mul(systolic, diastolicRatio))
        finalSystolic == Clamp(Num(95), Num(145), systolic)
        finalDiastolic == Clamp(Num(60), Num(95), diastolic)
        properDiastolic == MathMin(finalDiastolic, Sub(finalSystolic, Num(25)))
    IN  [systolic |-> finalSystolic, diastolic |-> properDiastolic]

(* variant of estimateBloodPressure that asks for 2 peaks, as detectHeartRate does *)
estimateBloodPressure_TwoPeaks(filtered, peaks, random1, random2) ==
    IF Len(peaks) < 2 THEN [systolic |-> Null, diastolic |-> Null]
    ELSE BloodPressureFromWave(PulseWave(filtered, peaks), random1, random2)

(* estimateBloodPressure from its filtered signal and peaks on *)
estimateBloodPressure(filtered, peaks, random1, random2) ==
    IF Len(peaks) < 3 THEN [systolic |-> Null, diastolic |-> Null]
    ELSE BloodPressureFromWave(PulseWave(filtered, peaks), random1, random2)

(* one sub-score pushed onto scores, or none *)
HeartRateScore(res, hist) ==
    LET hr == IF StrictEq(res.heartRate, Null) /\ Truthy(hist.heart_rate)
              THEN hist.heart_rate ELSE res.heartRate
    IN  IF ~Truthy(hr) THEN <<>>
        ELSE IF Ge(hr, Num(60)) /\ Le(hr, Num(100)) THEN <<100>>
        ELSE IF \/ (Ge(hr, Num(50)) /\ Lt(hr, Num(60)))
                \/ (Gt(hr, Num(100)) /\ Le(hr, Num(110))) THEN <<80>>
        ELSE IF \/ (Ge(hr, Num(40)) /\ Lt(hr, Num(50)))
                \/ (Gt(hr, Num(110)) /\ Le(hr, Num(120))) THEN <<60>>
        ELSE <<40>>

(* variant of SpO2Score that prefers the historical value to the live one *)
SpO2Score_HistoryFirst(res, hist) ==
    LET spo2 == IF Truthy(hist.spo2) THEN hist.spo2 ELSE res.spo2
    IN  IF ~Truthy(spo2) THEN <<>>
        ELSE IF Ge(spo2, Num(95)) THEN <<100>>
        ELSE IF Ge(spo2, Num(90)) THEN <<80>>
        ELSE IF Ge(spo2, Num(85)) THEN <<60>>
        ELSE <<40>>

SpO2Score(res, hist) ==
    LET spo2 == IF StrictEq(res.spo2, Null) /\ Truthy(hist.spo2)
                THEN hist.spo2 ELSE res.spo2
    IN  IF ~Truthy(spo2) THEN <<>>
        ELSE IF Ge(spo2, Num(95)) THEN <<100>>
        ELSE IF Ge(spo2, Num(90)) /\ Lt(spo2, Num(95)) THEN <<80>>
        ELSE IF Ge(spo2, Num(85)) /\ Lt(spo2, Num(90)) THEN <<60>>
        ELSE <<40>>

RespiratoryRateScore(res, hist) ==
    LET rr == IF StrictEq(res.respiratoryRate, Null) /\ Truthy(hist.respiratory_rate)
              THEN hist.respiratory_rate ELSE res.respiratoryRate
    IN  IF ~Truthy(rr) THEN <<>>
        ELSE IF Ge(rr, Num(12)) /\ Le(rr, Num(20)) THEN <<100>>
        ELSE IF \/ (Ge(rr, Num(8)) /\ Lt(rr, Num(12)))
                \/ (Gt(rr, Num(20)) /\ Le(rr, Num(25))) THEN <<80>>
        ELSE <<60>>

TemperatureScore(res, hist) ==
    LET temp == IF StrictEq(res.temperature, Null) /\ Truthy(hist.temperature)
                THEN hist.temperature ELSE res.temperature
    IN  IF ~Truthy(temp) THEN <<>>
        ELSE IF Ge(temp, Rat(361, 10)) /\ Le(temp, Rat(375, 10)) THEN <<100>>
        ELSE IF \/ (Ge(temp, Rat(355, 10)) /\ Lt(temp, Rat(361, 10)))
                \/ (Gt(temp, Rat(375, 10)) /\ Le(temp, Rat(383, 10))) THEN <<80>>
        ELSE <<60>>

BloodPressureScore(res, hist) ==
    LET sys == IF StrictEq(res.bloodPressure.systolic, Null)
                  /\ Truthy(hist.blood_pressure_systolic)
               THEN hist.blood_pressure_systolic ELSE res.bloodPressure.systolic
        dia == IF StrictEq(res.bloodPressure.diastolic, Null)
                  /\ Truthy(hist.blood_pressure_diastolic)
               THEN hist.blood_pressure_diastolic ELSE res.bloodPressure.diastolic
    IN  IF ~(Truthy(sys) /\ Truthy(dia)) THEN <<>>
        ELSE IF /\ Ge(sys, Num(90)) /\ Le(sys, Num(120))
                /\ Ge(dia, Num(60)) /\ Le(dia, Num(80)) THEN <<100>>
        ELSE IF \/ (Gt(sys, Num(120)) /\ Le(sys, Num(130)))
                \/ (Gt(dia, Num(80)) /\ Le(dia, Num(85))) THEN <<85>>
        ELSE IF \/ (Gt(sys, Num(130)) /\ Le(sys, Num(140)))
                \/ (Gt(dia, Num(85)) /\ Le(dia, Num(90))) THEN <<70>>
        ELSE IF Gt(sys, Num(140)) \/ Gt(dia, Num(90)) THEN <<50>>
        ELSE IF Lt(sys, Num(90)) \/ Lt(dia, Num(60)) THEN <<60>>
        ELSE <<100>>

RECURSIVE SumInts(_, _)
SumInts(s, i) == IF i > Len(s) THEN 0 ELSE s[i] + SumInts(s, i + 1)

SubScores(res, hist) ==
    HeartRateScore(res, hist) \o SpO2Score(res, hist) \o RespiratoryRateScore(res, hist)
        \o TemperatureScore(res, hist) \o BloodPressureScore(res, hist)

(* variant of calculateHealthScore that averages over the five fields, included
   or not *)
calculateHealthScore_OverFive(res, hist) ==
    MathRound(Rat(SumInts(SubScores(res, hist), 1), 5))

calculateHealthScore(res, hist) ==
    LET scores == SubScores(res, hist)
    IN  IF Len(scores) = 0 THEN Num(0)
        ELSE MathRound(Rat(SumInts(scores, 1), Len(scores)))

(* the results object after analyzeVitals; calculateHealthScore reads the five
   estimates just stored *)
(* a variant that also writes the historical heart rate over a null live one *)
WithHealthScore_WritesFallback(live, hist) ==
    [live EXCEPT !.healthScore = calculateHealthScore(live, hist),
                 !.heartRate = IF live.heartRate = Null /\ IsNumber(hist.heart_rate)
                               THEN hist.heart_rate ELSE @]

WithHealthScore(live, hist) == [live EXCEPT !.healthScore = calculateHealthScore(live, hist)]

-----------------------------------------------------------------------------
(* State *)

VARIABLES
    frames,          \* this.frames
    results,         \* this.results
    historicalData,  \* this.historicalData
    isScanning,      \* this.isScanning
    pc,              \* where the scan session is
    locals,          \* locals of the estimators at their return, in the last analyzeVitals
    stream,          \* this.stream: 0 for null, else the MediaStream
    openStreams,     \* the MediaStreams whose tracks have not been stopped
    faceDetected,    \* this.faceDetected
    faceRegion,      \* this.faceRegion: "null", "detected" or "forced"
    faceLoop,        \* a detectFace callback is pending (requestAnimationFrame)
    now,             \* Date.now(), in timer periods of 1000 / frameRate ms
    startTime,       \* this.startTime
    timers,          \* the pending setTimeout(() => this.captureFrames(), ...) callbacks
    calls,           \* the startScan and retakeScan invocations suspended at an await
    saves,           \* the saveResults invocations suspended: the body posted and,
                     \* once fetch has settled, the outcome
    load,            \* the fetch of loadHistoricalData: "pending", "loaded" or "failed"
    dom,             \* the elements of the page the class shows, hides and writes
    page,            \* "open", "reloading" (reload timer pending) or "reloaded"
    clicks           \* the clicks on the four buttons so far

vars == <<frames, results, historicalData, isScanning, pc, locals, stream, openStreams,
          faceDetected, faceRegion, faceLoop, now, startTime, timers, calls, saves,
          load, dom, page, clicks>>

EmptyResults ==
    [heartRate |-> Null, spo2 |-> Null, respiratoryRate |-> Null, temperature |-> Null,
     bloodPressure |-> [systolic |-> Null, diastolic |-> Null], healthScore |-> Undefined]

EmptyHistory ==
    [heart_rate |-> Undefined, spo2 |-> Undefined, respiratory_rate |-> Undefined,
     temperature |-> Undefined, blood_pressure_systolic |-> Undefined,
     blood_pressure_diastolic |-> Undefined]

NoWave == [heartRate |-> Undefined, variance |-> Undefined,
           normalizedAmplitude |-> Undefined, rmssd |-> Undefined]

NoLocals == [peaks |-> <<>>, pulseWave |-> NoWave, breathPeaks |-> <<>>]

(* Math.random() *)
RandomDraws == {Num(0), Rat(1, 2), Rat(9, 10)}

(* the scan lasts ScanTicks timer periods: scanDuration * frameRate = 1350 in the
   program, bounded here *)
ScanTicks == 2

(* the page as the HTML gives it: the start button shown, the stop button and the
   results card hidden (the stop button is shown exactly when the start button is
   hidden), no error text *)
InitialDom == [startBtnHidden |-> FALSE, resultsCardHidden |-> TRUE, errorText |-> ""]

RemoveAt(s, i) == SubSeq(s, 1, i - 1) \o SubSeq(s, i + 1, Len(s))

(* the callback timers[i] can run *)
Due(i) == timers[i].due <= now

(* captureFrames goes on: the negation of if (!this.isScanning) return *)
(* a variant of the test that lets every capture callback through *)
Capturing_Always == TRUE

Capturing == isScanning

(* elapsed >= this.scanDuration *)
ScanOver == now - startTime >= ScanTicks

(* the invocations the video element can still wake after its srcObject is set
   anew or to null: one waiting for loadedmetadata waits for ever *)
Awake(cs) == SelectSeq(cs, LAMBDA c : c.at /= "metadata")

(* stopCamera *)
stopCamera ==
    /\ stream' = 0
    /\ openStreams' = openStreams \ {stream}
    /\ calls' = Awake(calls)

(* captureFrames at the end of the scan calls completeScan: the scan ends and
   analyzeVitals fills results.  The filtered signals and their peaks are
   evaluated once and handed to the estimators. *)
completeScan ==
    /\ page /= "reloaded"
    /\ pc = "scanning"
    /\ \E i \in 1..Len(timers) :
           /\ Due(i)
           /\ timers' = RemoveAt(timers, i)
    /\ Capturing
    /\ ScanOver
    /\ isScanning' = FALSE
    /\ stopCamera
    /\ dom' = [dom EXCEPT !.startBtnHidden = FALSE, !.resultsCardHidden = FALSE]
    /\ \E greenSignal \in {Channel(frames, "g")} :
       \E pulse \in {PulsePeaks(greenSignal)}, breathPeaks \in {BreathPeaks(greenSignal)} :
       \E live \in {[heartRate |-> detectHeartRate(pulse.peaks),
                     spo2 |-> estimateSpO2(frames),
                     respiratoryRate |-> detectRespiratoryRate(breathPeaks),
                     temperature |-> estimateTemperature(frames)]} :
           /\ \E random1 \in RandomDraws, random2 \in RandomDraws :
                  results' =
                      WithHealthScore(
                          [heartRate |-> live.heartRate,
                           spo2 |-> live.spo2,
                           respiratoryRate |-> live.respiratoryRate,
                           temperature |-> live.temperature,
                           bloodPressure |->
                               estimateBloodPressure(pulse.filtered, pulse.peaks,
                                                     random1, random2),
                           healthScore |-> results.healthScore],
                          historicalData)
           /\ locals' = [peaks |-> pulse.peaks,
                         pulseWave |-> IF Len(pulse.peaks) < 3 THEN NoWave
                                       ELSE PulseWave(pulse.filtered, pulse.peaks),
                         breathPeaks |-> breathPeaks]
    /\ pc' = "results"
    /\ UNCHANGED <<frames, historicalData, faceDetected, faceRegion, faceLoop, now,
                   startTime, saves, load, page, clicks>>

-----------------------------------------------------------------------------
(* Buffers a scan can end with *)

MaxFrames == 3
MaxSignal == 5

ChannelLevels == {0, 1, 2}

Frame(i, r, g) ==
    [timestamp |-> Rat(i - 1, frameRate), r |-> Num(r), g |-> Num(g), b |-> Num(0)]

(* every buffer of at most MaxFrames frames over the channel levels *)
ColourBuffers ==
    UNION {{[i \in 1..n |-> Frame(i, rs[i], gs[i])] :
                rs \in [1..n -> ChannelLevels], gs \in [1..n -> ChannelLevels]} :
           n \in 0..MaxFrames}

(* every green signal of MaxFrames + 1 .. MaxSignal samples, red constant *)
GreenBuffers ==
    UNION {{[i \in 1..n |-> Frame(i, 1, gs[i])] : gs \in [1..n -> ChannelLevels]} :
           n \in (MaxFrames + 1)..MaxSignal}

RECURSIVE PulseIndex(_, _)
PulseIndex(gaps, k) == IF k = 1 THEN 1 ELSE PulseIndex(gaps, k - 1) + gaps[k - 1]

(* a pulse train: green is 0 except 1 at the code's index 1 and after each gap,
   2 at pulse number tall *)
PulseTrain(gaps, tall) ==
    LET at == [k \in 1..(Len(gaps) + 1) |-> PulseIndex(gaps, k)]
        n == at[Len(gaps) + 1] + 2
    IN  [i \in 1..n |->
            Frame(i, 1,
                  IF \E k \in DOMAIN at : at[k] = i - 1 /\ k = tall THEN 2
                  ELSE IF \E k \in DOMAIN at : at[k] = i - 1 THEN 1
                  ELSE 0)]

HeartGaps == {<<9>>, <<10>>, <<11>>, <<45>>, <<46>>}
PulseGaps == {<<10, 10>>, <<10, 20>>, <<20, 10>>, <<20, 20>>}
BreathGaps == {<<45, 45>>, <<72, 72>>, <<74, 74>>, <<74, 60>>, <<241, 241>>,
               <<60, 60, 140>>, <<45, 45, 200>>, <<60, 60, 120>>, <<10, 45>>}

PulseBuffers ==
    {PulseTrain(gaps, 0) : gaps \in HeartGaps \cup BreathGaps}
        \cup {PulseTrain(gaps, tall) : gaps \in PulseGaps, tall \in 0..3}

SomeHistory ==
    [heart_rate |-> Num(72), spo2 |-> Num(93), respiratory_rate |-> Null,
     temperature |-> Rat(368, 10), blood_pressure_systolic |-> Num(135),
     blood_pressure_diastolic |-> Num(85)]

(* a scan about to end with any of the buffers *)
InitAnalyze ==
    /\ frames \in ColourBuffers \cup GreenBuffers \cup PulseBuffers
    /\ historicalData \in IF Len(frames) <= 1 THEN {EmptyHistory, SomeHistory}
                          ELSE {EmptyHistory}
    /\ results = EmptyResults
    /\ isScanning = TRUE
    /\ pc = "scanning"
    /\ locals = NoLocals
    /\ stream = 1
    /\ openStreams = {1}
    /\ faceDetected = TRUE
    /\ faceRegion = "detected"
    /\ faceLoop = TRUE
    /\ startTime = 0
    /\ now = ScanTicks
    /\ timers = <<[due |-> ScanTicks, cancelled |-> FALSE]>>
    /\ calls = <<>>
    /\ saves = <<>>
    /\ load = IF historicalData = EmptyHistory THEN "failed" ELSE "loaded"
    /\ dom = [InitialDom EXCEPT !.startBtnHidden = TRUE]
    /\ page = "open"
    /\ clicks = 1

NextAnalyze == completeScan

SpecAnalyze == InitAnalyze /\ [][NextAnalyze]_vars

-----------------------------------------------------------------------------
(* The health score as a function of results and historicalData *)

LiveHeartRates == {Null, Num(72), Num(55), Num(45), Num(130)}
LiveSpO2s == {Null, Num(98), Num(92), Num(87)}
LiveRespiratoryRates == {Null, Num(16), Num(10), Num(25)}
LiveTemperatures == {Null, NaN, Rat(368, 10), Rat(355, 10), Rat(385, 10)}
LiveBloodPressures ==
    {[systolic |-> Null, diastolic |-> Null],
     [systolic |-> Num(110), diastolic |-> Num(75)],
     [systolic |-> Num(125), diastolic |-> Num(82)],
     [systolic |-> Num(135), diastolic |-> Num(88)],
     [systolic |-> Num(145), diastolic |-> Num(95)]}

(* a record with the systolic value alone *)
SystolicOnlyHistory ==
    [heart_rate |-> Null, spo2 |-> Null, respiratory_rate |-> Null,
     temperature |-> Null, blood_pressure_systolic |-> Num(120),
     blood_pressure_diastolic |-> Null]

(* a record of poor values, the heart rate stored as 0 *)
PoorHistory ==
    [heart_rate |-> Num(0), spo2 |-> Num(80), respiratory_rate |-> Num(30),
     temperature |-> Num(39), blood_pressure_systolic |-> Num(85),
     blood_pressure_diastolic |-> Num(55)]

Histories == {EmptyHistory, SomeHistory, SystolicOnlyHistory, PoorHistory}

InitScore ==
    /\ frames = <<>>
    /\ historicalData \in Histories
    /\ \E hr \in LiveHeartRates, spo2 \in LiveSpO2s, rr \in LiveRespiratoryRates,
          temp \in LiveTemperatures, bp \in LiveBloodPressures :
           results = [heartRate |-> hr, spo2 |-> spo2, respiratoryRate |-> rr,
                      temperature |-> temp, bloodPressure |-> bp,
                      healthScore |-> Undefined]
    /\ isScanning = FALSE
    /\ pc = "scoring"
    /\ locals = NoLocals
    /\ stream = 0
    /\ openStreams = {}
    /\ faceDetected = TRUE
    /\ faceRegion = "detected"
    /\ faceLoop = FALSE
    /\ startTime = 0
    /\ now = ScanTicks
    /\ timers = <<>>
    /\ calls = <<>>
    /\ saves = <<>>
    /\ load = IF historicalData = EmptyHistory THEN "failed" ELSE "loaded"
    /\ dom = InitialDom
    /\ page = "open"
    /\ clicks = 1

(* step 6 of analyzeVitals: this.results.healthScore = this.calculateHealthScore() *)
storeHealthScore ==
    /\ pc = "scoring"
    /\ results' = WithHealthScore(results, historicalData)
    /\ pc' = "scored"
    /\ UNCHANGED <<frames, historicalData, isScanning, locals, stream, openStreams,
                   faceDetected, faceRegion, faceLoop, now, startTime, timers, calls,
                   saves, load, dom, page, clicks>>

NextScore == storeHealthScore

SpecScore == InitScore /\ [][NextScore]_vars

-----------------------------------------------------------------------------
(* The page from its load to its reload *)

MaxTime == 2        \* Date.now() at most, in timer periods
MaxTimers == 2      \* capture callbacks pending at most
MaxCalls == 2       \* startScan and retakeScan invocations suspended at most
MaxStreams == 2     \* MediaStreams open at most
MaxSaves == 2       \* save requests in flight at most
maxAttempts == 1    \* const maxAttempts = 50 of startScan, bounded here
MaxClicks == 3      \* clicks on the buttons at most

(* the channel averages getAverageColor can give, <<r, g>> *)
PixelColours == {<<2, 1>>}

(* the records /app/vitals/latest-json can answer with *)
ServerRecords == {SomeHistory}

Init ==
    /\ frames = <<>>
    /\ results = EmptyResults
    /\ historicalData = EmptyHistory
    /\ isScanning = FALSE
    /\ pc = "idle"
    /\ locals = NoLocals
    /\ stream = 0
    /\ openStreams = {}
    /\ faceDetected = FALSE
    /\ faceRegion = "null"
    /\ faceLoop = FALSE
    /\ now = 0
    /\ startTime = 0
    /\ timers = <<>>
    /\ calls = <<>>
    /\ saves = <<>>
    /\ load = "pending"
    /\ dom = InitialDom
    /\ page = "open"
    /\ clicks = 0

(* a variant that takes the body of a response whatever its status *)
LoadedRecord_IgnoresStatus(outcome, body) ==
    IF outcome \in {"ok", "notOk"} THEN body ELSE historicalData

(* this.historicalData after the fetch of loadHistoricalData has settled: with
   "ok" the body of the response, else (response.ok false, fetch rejected,
   response.json() rejected) what it was *)
LoadedRecord(outcome, body) == IF outcome = "ok" THEN body ELSE historicalData

LoadOutcomes == {"ok", "notOk", "rejects", "badBody"}

loadHistoricalData ==
    /\ page /= "reloaded"
    /\ load = "pending"
    /\ \E outcome \in LoadOutcomes, body \in ServerRecords :
           /\ historicalData' = LoadedRecord(outcome, body)
           /\ load' = IF outcome = "ok" THEN "loaded" ELSE "failed"
    /\ UNCHANGED <<frames, results, isScanning, pc, locals, stream, openStreams,
                   faceDetected, faceRegion, faceLoop, now, startTime, timers, calls,
                   saves, dom, page, clicks>>

(* the clock advances by one timer period *)
Tick ==
    /\ page /= "reloaded"
    /\ now < MaxTime
    /\ now' = now + 1
    /\ UNCHANGED <<frames, results, historicalData, isScanning, pc, locals, stream,
                   openStreams, faceDetected, faceRegion, faceLoop, startTime, timers,
                   calls, saves, load, dom, page, clicks>>

(* one run of detectFace from requestAnimationFrame: it ends the loop when the
   stream is gone, else it sets faceDetected and faceRegion from the image *)
detectFace ==
    /\ page /= "reloaded"
    /\ faceLoop
    /\ IF stream = 0
       THEN /\ faceLoop' = FALSE
            /\ UNCHANGED <<faceDetected, faceRegion>>
       ELSE /\ \E skin \in BOOLEAN :
                   /\ faceDetected' = skin
                   /\ faceRegion' = IF skin THEN "detected" ELSE "null"
            /\ UNCHANGED faceLoop
    /\ UNCHANGED <<frames, results, historicalData, isScanning, pc, locals, stream,
                   openStreams, now, startTime, timers, calls, saves, load, dom, page, clicks>>

(* the end of startScan, from this.isScanning = true on, with the first call of
   captureFrames (elapsed is 0): region is this.faceRegion by then *)
BeginScan(region) ==
    /\ Len(timers) < MaxTimers
    /\ isScanning' = TRUE
    /\ startTime' = now
    /\ dom' = [dom EXCEPT !.startBtnHidden = TRUE]
    /\ pc' = "scanning"
    /\ IF region = "null" THEN frames' = <<>>
       ELSE \E c \in PixelColours : frames' = <<Frame(1, c[1], c[2])>>
    /\ timers' = Append(timers, [due |-> now + 1, cancelled |-> FALSE])

(* startScan after its camera is on: it waits for the face, or goes on at once *)
AwaitFaceOrBegin(detected, region, others, call) ==
    IF ~detected
    THEN /\ calls' = Append(others, [call EXCEPT !.at = "face", !.attempts = 0])
         /\ UNCHANGED <<frames, isScanning, pc, startTime, timers, dom>>
    ELSE /\ calls' = others
         /\ BeginScan(region)

(* a click on start-scan-btn: startScan up to its first await, or to its end *)
startScan ==
    /\ page /= "reloaded"
    /\ clicks < MaxClicks
    /\ clicks' = clicks + 1
    /\ ~dom.startBtnHidden
    /\ Len(calls) < MaxCalls
    /\ IF stream = 0
       THEN /\ calls' = Append(calls, [kind |-> "startScan", at |-> "getUserMedia",
                                       attempts |-> 0])
            /\ UNCHANGED <<frames, isScanning, pc, startTime, timers, dom>>
       ELSE AwaitFaceOrBegin(faceDetected, faceRegion, calls,
                             [kind |-> "startScan", at |-> "face", attempts |-> 0])
    /\ UNCHANGED <<results, historicalData, locals, stream, openStreams, faceDetected,
                   faceRegion, faceLoop, now, saves, load, page>>

(* getUserMedia of startCamera settles: the stream is stored and played, and the
   invocation waits for loadedmetadata; or the error is shown and startCamera
   returns false, which ends startScan and retakeScan *)
getUserMedia(i) ==
    /\ page /= "reloaded"
    /\ i \in 1..Len(calls)
    /\ calls[i].at = "getUserMedia"
    /\ \/ /\ \E s \in 1..MaxStreams :
                 /\ s \notin openStreams
                 /\ \A t \in 1..(s - 1) : t \in openStreams
                 /\ stream' = s
                 /\ openStreams' = openStreams \cup {s}
          /\ calls' = Append(Awake(RemoveAt(calls, i)), [calls[i] EXCEPT !.at = "metadata"])
          /\ UNCHANGED dom
       \/ /\ calls' = RemoveAt(calls, i)
          /\ dom' = [dom EXCEPT !.errorText = "Unable to access camera"]
          /\ UNCHANGED <<stream, openStreams>>
    /\ UNCHANGED <<frames, results, historicalData, isScanning, pc, locals, faceDetected,
                   faceRegion, faceLoop, now, startTime, timers, saves, load, page, clicks>>

(* loadedmetadata: startCamera starts detectFace and returns true; retakeScan
   ends, startScan goes on *)
loadedmetadata(i) ==
    /\ page /= "reloaded"
    /\ i \in 1..Len(calls)
    /\ calls[i].at = "metadata"
    /\ \E skin \in BOOLEAN :
           /\ faceDetected' = skin
           /\ faceRegion' = IF skin THEN "detected" ELSE "null"
           /\ faceLoop' = TRUE
           /\ IF calls[i].kind = "retakeScan"
              THEN /\ calls' = RemoveAt(calls, i)
                   /\ UNCHANGED <<frames, isScanning, pc, startTime, timers, dom>>
              ELSE AwaitFaceOrBegin(skin, IF skin THEN "detected" ELSE "null",
                                    RemoveAt(calls, i), calls[i])
    /\ UNCHANGED <<results, historicalData, locals, stream, openStreams, now, saves,
                   load, page, clicks>>

(* the 100 ms timeout of the wait for the face: the loop goes on, or startScan
   goes on, asking confirm(...) when no face was detected *)
awaitFace(i) ==
    /\ page /= "reloaded"
    /\ i \in 1..Len(calls)
    /\ calls[i].at = "face"
    /\ IF ~faceDetected /\ calls[i].attempts + 1 < maxAttempts
       THEN /\ calls' = [calls EXCEPT ![i].attempts = @ + 1]
            /\ UNCHANGED <<frames, isScanning, pc, startTime, timers, dom, faceRegion>>
       ELSE IF faceDetected
       THEN /\ calls' = RemoveAt(calls, i)
            /\ BeginScan(faceRegion)
            /\ UNCHANGED faceRegion
       ELSE \E force \in BOOLEAN :
                IF ~force
                THEN /\ calls' = RemoveAt(calls, i)
                     /\ dom' = [dom EXCEPT !.errorText = "Scan cancelled"]
                     /\ UNCHANGED <<frames, isScanning, pc, startTime, timers, faceRegion>>
                ELSE /\ calls' = RemoveAt(calls, i)
                     /\ faceRegion' = "forced"
                     /\ BeginScan("forced")
    /\ UNCHANGED <<results, historicalData, locals, stream, openStreams, faceDetected,
                   faceLoop, now, saves, load, page, clicks>>

(* a variant that ends the loop at the first tick without a face region *)
captureFrames_NeedsFace(i) ==
    /\ page /= "reloaded"
    /\ i \in 1..Len(timers)
    /\ Due(i)
    /\ IF ~Capturing \/ faceRegion = "null"
       THEN /\ timers' = RemoveAt(timers, i)
            /\ UNCHANGED frames
       ELSE /\ ~ScanOver
            /\ \E c \in PixelColours :
                   frames' = Append(frames, Frame(now - startTime + 1, c[1], c[2]))
            /\ timers' = Append(RemoveAt(timers, i), [timers[i] EXCEPT !.due = now + 1])
    /\ UNCHANGED <<results, historicalData, isScanning, pc, locals, stream, openStreams,
                   faceDetected, faceRegion, faceLoop, now, startTime, calls, saves,
                   load, dom, page, clicks>>

(* a capture callback runs and the scan is not over: it returns when no scan is
   on, else it appends the sample of the face region, if there is one, and
   schedules the next callback *)
captureFrames(i) ==
    /\ page /= "reloaded"
    /\ i \in 1..Len(timers)
    /\ Due(i)
    /\ IF ~Capturing
       THEN /\ timers' = RemoveAt(timers, i)
            /\ UNCHANGED frames
       ELSE /\ ~ScanOver
            /\ IF faceRegion = "null" THEN UNCHANGED frames
               ELSE \E c \in PixelColours :
                        frames' = Append(frames, Frame(now - startTime + 1, c[1], c[2]))
            /\ timers' = Append(RemoveAt(timers, i), [timers[i] EXCEPT !.due = now + 1])
    /\ UNCHANGED <<results, historicalData, isScanning, pc, locals, stream, openStreams,
                   faceDetected, faceRegion, faceLoop, now, startTime, calls, saves,
                   load, dom, page, clicks>>

(* a click on stop-scan-btn; the callbacks pending by then are marked *)
stopScan ==
    /\ page /= "reloaded"
    /\ clicks < MaxClicks
    /\ clicks' = clicks + 1
    /\ dom.startBtnHidden
    /\ isScanning' = FALSE
    /\ dom' = [dom EXCEPT !.startBtnHidden = FALSE]
    /\ stopCamera
    /\ timers' = [k \in 1..Len(timers) |-> [timers[k] EXCEPT !.cancelled = TRUE]]
    /\ pc' = "idle"
    /\ UNCHANGED <<frames, results, historicalData, locals, faceDetected, faceRegion,
                   faceLoop, now, startTime, saves, load, page>>

(* JSON.stringify of a number or null: NaN and the infinities become null *)
JsonValue(v) == IF IsNumber(v) /\ ~IsFinite(v) THEN Null ELSE v

(* the body saveResults posts to /app/vitals/save *)
Payload(res) ==
    [heart_rate |-> JsonValue(res.heartRate),
     spo2 |-> JsonValue(res.spo2),
     respiratory_rate |-> JsonValue(res.respiratoryRate),
     temperature |-> JsonValue(res.temperature),
     blood_pressure_systolic |-> JsonValue(res.bloodPressure.systolic),
     blood_pressure_diastolic |-> JsonValue(res.bloodPressure.diastolic),
     method |-> "camera",
     confidence |-> Rat(85, 100),
     scan_duration |-> Num(scanDuration)]

(* a click on save-reading-btn, in the results card: saveResults up to its await
   of fetch *)
saveResults ==
    /\ page /= "reloaded"
    /\ clicks < MaxClicks
    /\ clicks' = clicks + 1
    /\ ~dom.resultsCardHidden
    /\ Len(saves) < MaxSaves
    /\ saves' = Append(saves, [body |-> Payload(results), outcome |-> "none"])
    /\ UNCHANGED <<frames, results, historicalData, isScanning, pc, locals, stream,
                   openStreams, faceDetected, faceRegion, faceLoop, now, startTime,
                   timers, calls, load, dom, page>>

(* how the request of saveResults can settle: result.success true, result.success
   false, or fetch or response.json() throwing *)
SaveOutcomes == {"success", "failure", "throws"}

(* a variant that stops the camera and reloads whatever the answer *)
AfterSave_AlwaysStops(outcome) ==
    [stops |-> TRUE, reloads |-> TRUE,
     error |-> CASE outcome = "success" -> ""
                 [] outcome = "failure" -> "Failed to save vitals: "
                 [] outcome = "throws" -> "Failed to save vitals. Please try again."]

(* what saveResults does after its awaits: whether it stops the camera and
   schedules the reload, and the error it shows *)
AfterSave(outcome) ==
    CASE outcome = "success" -> [stops |-> TRUE, reloads |-> TRUE, error |-> ""]
      [] outcome = "failure" ->
             [stops |-> FALSE, reloads |-> FALSE, error |-> "Failed to save vitals: "]
      [] outcome = "throws" ->
             [stops |-> FALSE, reloads |-> FALSE,
              error |-> "Failed to save vitals. Please try again."]

(* the server answers the request of saves[i], or the request fails *)
saveAnswered(i) ==
    /\ page /= "reloaded"
    /\ i \in 1..Len(saves)
    /\ saves[i].outcome = "none"
    /\ \E outcome \in SaveOutcomes : saves' = [saves EXCEPT ![i].outcome = outcome]
    /\ UNCHANGED <<frames, results, historicalData, isScanning, pc, locals, stream,
                   openStreams, faceDetected, faceRegion, faceLoop, now, startTime,
                   timers, calls, load, dom, page, clicks>>

(* saveResults runs from its awaits to its end *)
saveSettles(i) ==
    /\ page /= "reloaded"
    /\ i \in 1..Len(saves)
    /\ saves[i].outcome /= "none"
    /\ saves' = RemoveAt(saves, i)
    /\ \E after \in {AfterSave(saves[i].outcome)} :
           /\ IF after.stops THEN stopCamera ELSE UNCHANGED <<stream, openStreams, calls>>
           /\ page' = IF after.reloads THEN "reloading" ELSE page
           /\ dom' = IF after.error = "" THEN dom ELSE [dom EXCEPT !.errorText = after.error]
    /\ UNCHANGED <<frames, results, historicalData, isScanning, pc, locals, faceDetected,
                   faceRegion, faceLoop, now, startTime, timers, load, clicks>>

(* window.location.reload() one second after a save: the page and its scanner
   are gone *)
reload ==
    /\ page = "reloading"
    /\ page' = "reloaded"
    /\ UNCHANGED <<frames, results, historicalData, isScanning, pc, locals, stream,
                   openStreams, faceDetected, faceRegion, faceLoop, now, startTime,
                   timers, calls, saves, load, dom, clicks>>

(* a click on retake-btn, in the results card: retakeScan up to the await in
   startCamera *)
retakeScan ==
    /\ page /= "reloaded"
    /\ clicks < MaxClicks
    /\ clicks' = clicks + 1
    /\ ~dom.resultsCardHidden
    /\ Len(calls) < MaxCalls
    /\ dom' = [dom EXCEPT !.resultsCardHidden = TRUE]
    /\ results' = EmptyResults
    /\ calls' = Append(calls, [kind |-> "retakeScan", at |-> "getUserMedia",
                               attempts |-> 0])
    /\ pc' = IF pc = "results" THEN "idle" ELSE pc
    /\ UNCHANGED <<frames, historicalData, isScanning, locals, stream, openStreams,
                   faceDetected, faceRegion, faceLoop, now, startTime, timers, saves,
                   load, page>>

Next ==
    \/ loadHistoricalData
    \/ Tick
    \/ detectFace
    \/ startScan
    \/ \E i \in 1..MaxCalls : getUserMedia(i)
    \/ \E i \in 1..MaxCalls : loadedmetadata(i)
    \/ \E i \in 1..MaxCalls : awaitFace(i)
    \/ \E i \in 1..MaxTimers : captureFrames(i)
    \/ completeScan
    \/ stopScan
    \/ saveResults
    \/ \E i \in 1..MaxSaves : saveAnswered(i)
    \/ \E i \in 1..MaxSaves : saveSettles(i)
    \/ reload
    \/ retakeScan

Spec == Init /\ [][Next]_vars

(* a capture callback that is due finds the scan running and its time over:
   the condition under which completeScan can take place *)
CanComplete ==
    /\ page /= "reloaded"
    /\ pc = "scanning"
    /\ Capturing
    /\ ScanOver
    /\ \E i \in 1..Len(timers) : Due(i)

(* the event loop runs what is due: the clock advances, a capture callback whose
   time has come is called, and the reload scheduled by a save takes place.  The
   last conjunct is WF_vars(completeScan) with ENABLED <<completeScan>>_vars
   written out as CanComplete. *)
FairSpec ==
    /\ Spec
    /\ WF_vars(Tick)
    /\ WF_vars(\E i \in 1..MaxTimers : captureFrames(i))
    /\ WF_vars(reload)
    /\ ([]<>(~CanComplete) \/ []<><<completeScan>>_vars)

-----------------------------------------------------------------------------
(* The heart rate of a synthetic pulse *)

SineScale == 1000   \* the samples are sines to three decimals

(* round(SineScale * sin(d degrees)) for d = 0..90 *)
SineQuarter ==
    <<0, 17, 35, 52, 70, 87, 105, 122, 139, 156, 174, 191, 208,
      225, 242, 259, 276, 292, 309, 326, 342, 358, 375, 391, 407, 423,
      438, 454, 469, 485, 500, 515, 530, 545, 559, 574, 588, 602, 616,
      629, 643, 656, 669, 682, 695, 707, 719, 731, 743, 755, 766, 777,
      788, 799, 809, 819, 829, 839, 848, 857, 866, 875, 883, 891, 899,
      906, 914, 921, 927, 934, 940, 946, 951, 956, 961, 966, 970, 974,
      978, 982, 985, 988, 990, 993, 995, 996, 998, 999, 999, 1000, 1000>>

Sine(deg) ==
    LET a == deg % 360
    IN  IF a <= 90 THEN SineQuarter[a + 1]
        ELSE IF a <= 180 THEN SineQuarter[180 - a + 1]
        ELSE IF a <= 270 THEN -SineQuarter[a - 180 + 1]
        ELSE -SineQuarter[360 - a + 1]

(* degrees of phase per sample: the frequency is step * frameRate / 360 Hz *)
SineSteps == {8, 12, 13, 20, 27, 36}
SinePhases == {0, 6, 15, 30, 45, 60, 72, 90, 180}

SineHz(step) == Rat(step * frameRate, 360)

(* sin(2 pi f t + phase) sampled at frameRate for scanDuration seconds *)
Sinusoid(step, phase) ==
    [i \in 1..(scanDuration * frameRate) |-> Rat(Sine(step * (i - 1) + phase), SineScale)]

SineFrames(signal) ==
    [i \in 1..Len(signal) |->
        [timestamp |-> Rat(i - 1, frameRate), r |-> Num(0), g |-> signal[i], b |-> Num(0)]]

(* analyzeVitals about to run on a buffer whose green channel is a sinusoid *)
InitSine ==
    /\ \E step \in SineSteps, phase \in SinePhases :
           frames = SineFrames(Sinusoid(step, phase))
    /\ historicalData = EmptyHistory
    /\ results = EmptyResults
    /\ isScanning = FALSE
    /\ pc = "measuring"
    /\ locals = NoLocals
    /\ stream = 0
    /\ openStreams = {}
    /\ faceDetected = TRUE
    /\ faceRegion = "detected"
    /\ faceLoop = FALSE
    /\ startTime = 0
    /\ now = ScanTicks
    /\ timers = <<>>
    /\ calls = <<>>
    /\ saves = <<>>
    /\ load = "failed"
    /\ dom = InitialDom
    /\ page = "open"
    /\ clicks = 1

(* step 1 of analyzeVitals: this.results.heartRate = this.detectHeartRate(greenSignal) *)
storeHeartRate ==
    /\ pc = "measuring"
    /\ \E pulse \in {PulsePeaks(Channel(frames, "g"))} :
           /\ results' = [results EXCEPT !.heartRate = detectHeartRate(pulse.peaks)]
           /\ locals' = [locals EXCEPT !.peaks = pulse.peaks]
    /\ pc' = "measured"
    /\ UNCHANGED <<frames, historicalData, isScanning, stream, openStreams, faceDetected,
                   faceRegion, faceLoop, now, startTime, timers, calls, saves, load, dom,
                   page, clicks>>

NextSine == storeHeartRate

SpecSine == InitSine /\ [][NextSine]_vars

-----------------------------------------------------------------------------
(* Claims *)

Analyzed == pc = "results"
Green == Channel(frames, "g")
Red == Channel(frames, "r")

(* C1: whenever estimateBloodPressure returns a non-null pair, whatever the two
   random draws were, systolic is in [95,145], diastolic is in [60,95] and
   diastolic <= systolic - 25 *)
C1_BloodPressureRanges ==
    (Analyzed /\ results.bloodPressure.systolic /= Null) =>
        /\ InRange(results.bloodPressure.systolic, 95, 145)
        /\ InRange(results.bloodPressure.diastolic, 60, 95)
        /\ Le(results.bloodPressure.diastolic,
              Sub(results.bloodPressure.systolic, Num(25)))

(* a pair at the upper end of both ranges has been returned *)
C1_Witness ==
    /\ Analyzed
    /\ results.bloodPressure.systolic = Num(145)
    /\ results.bloodPressure.diastolic = Num(95)

(* C2: detectHeartRate returns null with fewer than 2 peaks; otherwise
   bpm = round(60 * frameRate / mean inter-peak interval), returned only if
   40 <= bpm <= 180, else null; so a result is null or an integer in [40,180] *)
C2_HeartRate ==
    Analyzed =>
        LET peaks == locals.peaks
            k == Len(peaks)
            hr == results.heartRate
        IN  /\ (hr = Null) \/ (IsInteger(hr) /\ InRange(hr, 40, 180))
            /\ (k < 2) => (hr = Null)
            /\ (k >= 2) =>
                   LET meanInterval == Rat(peaks[k] - peaks[1], k - 1)
                       bpm == MathRound(Div(Num(60 * frameRate), meanInterval))
                   IN  hr = IF InRange(bpm, 40, 180) THEN bpm ELSE Null

(* a heart rate has been returned from at least 2 peaks *)
C2_Witness == Analyzed /\ Len(locals.peaks) >= 2 /\ results.heartRate /= Null

(* C3: estimateSpO2 returns null if the red or the green mean is zero; with both
   means nonzero it never returns null: round(110 - 25 R) when that is in
   [85,100], else exactly 97, also when R is undefined *)
C3_SpO2 ==
    (Analyzed /\ Len(frames) >= 1) =>
        LET redDC == calculateMean(Red)
            greenDC == calculateMean(Green)
            R == Div(Div(calculateAC(Red), redDC), Div(calculateAC(Green), greenDC))
            value == MathRound(Sub(Num(110), Mul(Num(25), R)))
        IN  IF redDC = Num(0) \/ greenDC = Num(0)
            THEN results.spo2 = Null
            ELSE /\ results.spo2 /= Null
                 /\ results.spo2 = IF InRange(value, 85, 100) THEN value ELSE Num(97)

(* the default 97 has been returned for a ratio R that is undefined (green AC zero) *)
C3_Witness ==
    /\ Analyzed
    /\ Len(frames) >= 1
    /\ calculateMean(Red) /= Num(0)
    /\ calculateMean(Green) /= Num(0)
    /\ calculateAC(Green) = Num(0)
    /\ results.spo2 = Num(97)

(* C4: estimateSpO2 on an empty buffer returns null *)
C4_EmptyBufferSpO2Null == (Analyzed /\ Len(frames) = 0) => results.spo2 = Null

(* C5: for every buffer with at least one frame, whatever the channel values,
   estimateTemperature returns a number within [35.5, 38.5], never null or NaN *)
C5_TemperatureInRange ==
    (Analyzed /\ Len(frames) >= 1) =>
        /\ IsFinite(results.temperature)
        /\ Ge(results.temperature, Rat(355, 10))
        /\ Le(results.temperature, Rat(385, 10))

(* C6: for every buffer of length 0 or 1 analyzeVitals returns and each
   estimator's result is null or its documented default (a temperature within
   its range), never NaN or undefined *)
C6_ShortBufferResults ==
    (Analyzed /\ Len(frames) <= 1) =>
        /\ results.heartRate = Null
        /\ results.spo2 \in {Null, Num(97)}
        /\ results.respiratoryRate = Num(14)
        /\ \/ results.temperature = Null
           \/ /\ IsFinite(results.temperature)
              /\ Ge(results.temperature, Rat(355, 10))
              /\ Le(results.temperature, Rat(385, 10))
        /\ results.bloodPressure = [systolic |-> Null, diastolic |-> Null]
        /\ IsInteger(results.healthScore)

(* C7: detectRespiratoryRate never returns null, its result is an integer in
   [8,25]: 14 with fewer than 3 peaks or fewer than 2 intervals left after
   outlier removal, otherwise round(60 * frameRate / filtered mean interval)
   saturated to 8 below and 25 above *)
C7_RespiratoryRate ==
    Analyzed =>
        LET peaks == locals.breathPeaks
            rr == results.respiratoryRate
            kept == FilteredIntervals(PeakIntervals(peaks))
            rate == MathRound(Div(Num(60 * frameRate), calculateMean(kept)))
        IN  /\ rr /= Null /\ IsInteger(rr) /\ InRange(rr, 8, 25)
            /\ (Len(peaks) < 3) => (rr = Num(14))
            /\ (Len(peaks) >= 3 /\ Len(kept) < 2) => (rr = Num(14))
            /\ (Len(peaks) >= 3 /\ Len(kept) >= 2) =>
                   (rr = MathMax(Num(8), MathMin(Num(25), rate)))

(* a rate below 8 has been saturated to 8 *)
C7_Witness ==
    /\ Analyzed
    /\ Len(locals.breathPeaks) >= 3
    /\ Len(FilteredIntervals(PeakIntervals(locals.breathPeaks))) >= 2
    /\ Lt(MathRound(Div(Num(60 * frameRate),
                        calculateMean(FilteredIntervals(PeakIntervals(locals.breathPeaks))))),
          Num(8))
    /\ results.respiratoryRate = Num(8)

(* C8: estimateBloodPressure returns {null, null} exactly when fewer than 3 peaks
   are found; with 3 or more both fields are finite integers, systolic is null
   iff diastolic is, and no intermediate term is undefined *)
C8_BloodPressureNull ==
    Analyzed =>
        LET bp == results.bloodPressure
            pw == locals.pulseWave
        IN  /\ (bp.systolic = Null) <=> (Len(locals.peaks) < 3)
            /\ (bp.systolic = Null) <=> (bp.diastolic = Null)
            /\ (Len(locals.peaks) >= 3) =>
                   /\ IsInteger(bp.systolic) /\ IsInteger(bp.diastolic)
                   /\ IsFinite(pw.heartRate) /\ IsFinite(pw.variance)
                   /\ IsFinite(pw.normalizedAmplitude) /\ IsFinite(pw.rmssd)

(* a pair has been returned from exactly 3 peaks *)
C8_Witness ==
    Analyzed /\ Len(locals.peaks) = 3 /\ results.bloodPressure.systolic /= Null

IdealEstimates ==
    [heartRate |-> Num(72), spo2 |-> Num(98), respiratoryRate |-> Num(16),
     temperature |-> Rat(368, 10),
     bloodPressure |-> [systolic |-> Num(110), diastolic |-> Num(75)]]

LiveEstimates(res) ==
    [heartRate |-> res.heartRate, spo2 |-> res.spo2,
     respiratoryRate |-> res.respiratoryRate, temperature |-> res.temperature,
     bloodPressure |-> res.bloodPressure]

(* C9: calculateHealthScore returns 100 when the five live estimates are HR=72,
   SpO2=98, RR=16, Temp=36.8, BP=110/75, whatever the historical record *)
C9_IdealScore ==
    (pc = "scored" /\ LiveEstimates(results) = IdealEstimates) =>
        results.healthScore = Num(100)

(* the ideal estimates have been scored against a record of poor values *)
C9_Witness ==
    /\ pc = "scored"
    /\ LiveEstimates(results) = IdealEstimates
    /\ historicalData = PoorHistory

(* a field resolves to its live estimate if that is non-null, else to the
   historical value; the value is usable if it is a number other than 0 and NaN *)
Resolved(live, historical) == IF live /= Null THEN live ELSE historical
Usable(v) == IsNumber(v) /\ v /= NaN /\ v /= Num(0)

ResolvedFields(res, hist) ==
    {f \in {"heartRate", "spo2", "respiratoryRate", "temperature", "bloodPressure"} :
        CASE f = "heartRate" -> Usable(Resolved(res.heartRate, hist.heart_rate))
          [] f = "spo2" -> Usable(Resolved(res.spo2, hist.spo2))
          [] f = "respiratoryRate" ->
                 Usable(Resolved(res.respiratoryRate, hist.respiratory_rate))
          [] f = "temperature" -> Usable(Resolved(res.temperature, hist.temperature))
          [] f = "bloodPressure" ->
                 /\ Usable(Resolved(res.bloodPressure.systolic,
                                    hist.blood_pressure_systolic))
                 /\ Usable(Resolved(res.bloodPressure.diastolic,
                                    hist.blood_pressure_diastolic))}

(* C10: calculateHealthScore returns an integer in 0..100; it returns 0 iff no
   field resolves to a usable value; with at least one field resolved the score
   is the rounded average of the included sub-scores, one per resolved field,
   and greater than 0 *)
C10_ScoreRange ==
    (pc = "scored") =>
        LET score == results.healthScore
            fields == ResolvedFields(results, historicalData)
            scores == SubScores(results, historicalData)
        IN  /\ IsInteger(score) /\ InRange(score, 0, 100)
            /\ (score = Num(0)) <=> (fields = {})
            /\ Len(scores) = Cardinality(fields)
            /\ (fields /= {}) =>
                   /\ Gt(score, Num(0))
                   /\ 2 * score[1] * Len(scores) <= 2 * SumInts(scores, 1) + Len(scores)
                   /\ 2 * score[1] * Len(scores) > 2 * SumInts(scores, 1) - Len(scores)

(* a score has come from a historical value alone, and a score of 0 would need none *)
C10_Witness ==
    /\ pc = "scored"
    /\ LiveEstimates(results) = LiveEstimates(EmptyResults)
    /\ historicalData = PoorHistory
    /\ Gt(results.healthScore, Num(0))

(* C11: calculateHealthScore changes neither the live estimates in results nor
   historicalData (a historical value is never written into results), and run
   again on the results and historicalData it left it gives the same score *)
C11_ScoreFrame ==
    [][(pc' = "scored") =>
           /\ LiveEstimates(results') = LiveEstimates(results)
           /\ historicalData' = historicalData
           /\ calculateHealthScore(results', historicalData') = results'.healthScore]_vars

(* the score has been computed from historical values while every live estimate
   but the respiratory rate is null, and the nulls are still there *)
C11_Witness ==
    /\ pc = "scored"
    /\ historicalData = SomeHistory
    /\ LiveEstimates(results) =
           [LiveEstimates(EmptyResults) EXCEPT !.respiratoryRate = Num(16)]
    /\ results.healthScore = Num(93)

PayloadFields ==
    {"heart_rate", "spo2", "respiratory_rate", "temperature", "blood_pressure_systolic",
     "blood_pressure_diastolic", "health_score", "method", "confidence", "scan_duration"}

(* C12: the body saveResults posts has the five vital estimates (systolic and
   diastolic pressure apart), the health score, a method tag, a confidence value
   and the scan duration *)
C12_PayloadComplete ==
    \A i \in 1..Len(saves) : PayloadFields \subseteq DOMAIN saves[i].body

(* C13: at most one captureFrames loop is scheduled at any time: two startScan
   invocations never leave two capture callbacks pending *)
C13_SingleCaptureLoop == Len(timers) <= 1

(* C14: frames is the same after analyzeVitals as before it, and no step changes
   it while no scan is on: no capture callback appends during or after the
   estimation pass *)
C14_FramesKept == [][(~isScanning') => (frames' = frames)]_vars

(* the analysis is done while a capture callback is still pending *)
C14_Witness ==
    /\ pc = "results"
    /\ ~isScanning
    /\ Len(frames) >= 1
    /\ Len(timers) >= 1

(* the capture callbacks that were pending at a stopScan *)
Cancelled(ts) == SelectSeq(ts, LAMBDA t : t.cancelled)

(* C15: a capture callback that was pending when stopScan cancelled the scan
   appends no frame and runs no completeScan: when it runs, frames and results
   stay as they are *)
C15_CancelledSessionDiscarded ==
    [][(Cancelled(timers') /= Cancelled(timers)) =>
           (frames' = frames /\ results' = results)]_vars

(* C16: the timestamps of frames are strictly increasing *)
C16_TimestampsIncrease ==
    \A i \in 1..(Len(frames) - 1) : Lt(frames[i].timestamp, frames[i + 1].timestamp)

(* C17: a capture callback that runs during a scan while faceRegion is null
   leaves frames as it is and schedules the next callback; no step appends more
   than one sample *)
C17_NoFaceNoSample ==
    [][/\ Len(frames') <= Len(frames) + 1
       /\ \A i \in 1..Len(timers) :
              (captureFrames(i) /\ Capturing /\ faceRegion = "null") =>
                  /\ frames' = frames
                  /\ Len(timers') = Len(timers)
                  /\ timers'[Len(timers')].due = now + 1]_vars

(* a callback has run after the start of the scan without a face region: the
   buffer holds the first sample alone and the next callback is scheduled *)
C17_Witness ==
    /\ isScanning
    /\ faceRegion = "null"
    /\ now > startTime
    /\ Len(frames) = 1
    /\ Len(timers) = 1
    /\ timers[1].due = now + 1
    /\ ~timers[1].cancelled

SaveErrors == {"Failed to save vitals: ", "Failed to save vitals. Please try again."}

(* C18: when a save fails (success false, or fetch or the parsing throws),
   showError shows the failure, results stays as it is, and there is no camera
   stop and no reload *)
C18_SaveFailureKeepsResults ==
    [][\A i \in 1..Len(saves) :
           (saves[i].outcome \in {"failure", "throws"} /\ saveSettles(i)) =>
               /\ dom'.errorText \in SaveErrors
               /\ results' = results
               /\ stream' = stream
               /\ openStreams' = openStreams
               /\ page' = page]_vars

(* a failed save has been shown and the reading is still there to save again *)
C18_Witness ==
    /\ dom.errorText \in SaveErrors
    /\ page = "open"
    /\ pc = "results"
    /\ ~dom.resultsCardHidden
    /\ IsInteger(results.healthScore)
    /\ saves = <<>>

(* C19: after a failed load of the historical record historicalData is the empty
   record, and a health score computed then is the score of the live estimates
   alone *)
C19_LoadFailureEmptyRecord ==
    (load = "failed") =>
        /\ historicalData = EmptyHistory
        /\ (pc = "results") =>
               /\ IsInteger(results.healthScore)
               /\ LET live == ResolvedFields(results, EmptyHistory)
                  IN  Len(SubScores(results, historicalData)) = Cardinality(live)

(* a scan has been analysed after the load failed *)
C19_Witness ==
    /\ load = "failed"
    /\ pc = "results"
    /\ Gt(results.healthScore, Num(0))

(* C20: for a green signal that is a sinusoid at f Hz sampled at frameRate for
   the scan duration, with 60 f in [40,180], detectHeartRate returns a value
   within 2 BPM of round(60 f) *)
C20_SinusoidHeartRate ==
    (pc = "measured") =>
        \A step \in SineSteps, phase \in SinePhases :
            (Channel(frames, "g") = Sinusoid(step, phase)) =>
                LET bpm == MathRound(Mul(Num(60), SineHz(step)))
                IN  /\ InRange(bpm, 40, 180)
                    /\ IsInteger(results.heartRate)
                    /\ InRange(results.heartRate, bpm[1] - 2, bpm[1] + 2)

(* signal[i] minus the mean of signal[max(0, i-w) .. min(n-1, i+w)] for the
   half-width w = round(sampleRate / lowFreq) *)
RoundedWindowFilter(signal, lowFreq, sampleRate) ==
    LET w == MathRound(Div(sampleRate, lowFreq))[1]
        n == Len(signal)
    IN  [k \in 1..n |->
            LET lo == MaxInt(1, k - w)
                hi == MinInt(n, k + w)
            IN  Sub(signal[k], Div(SumOf([j \in 1..(hi - lo + 1) |-> signal[lo + j - 1]]),
                                   Num(hi - lo + 1)))]

(* C21: bandpassFilter(signal, lowFreq, _, sampleRate) returns a series as long
   as signal whose element i is signal[i] minus the mean of the window of
   half-width round(sampleRate / lowFreq) around i, cut at the ends of the
   series; for the two filters analyzeVitals applies to the green signal *)
C21_BandpassRoundedWindow ==
    Analyzed =>
        /\ Len(bandpassFilter(Green, Rat(7, 10), Num(4), Num(frameRate))) = Len(Green)
        /\ bandpassFilter(Green, Rat(2, 10), Rat(5, 10), Num(frameRate))
               = RoundedWindowFilter(Green, Rat(2, 10), Num(frameRate))
        /\ bandpassFilter(Green, Rat(7, 10), Num(4), Num(frameRate))
               = RoundedWindowFilter(Green, Rat(7, 10), Num(frameRate))

(* the series findPeaks is given by detectHeartRate, and its threshold *)
HeartFiltered == bandpassFilter(Green, Rat(7, 10), Num(4), Num(frameRate)) \o <<>>
HeartThreshold ==
    Add(calculateMean(HeartFiltered), Mul(Rat(1, 2), calculateStdDev(HeartFiltered)))

(* C22: findPeaks returns, ascending and without duplicates, exactly the indices
   i with 1 <= i <= n-2 whose sample is strictly greater than both neighbours
   and than mean + 0.5 stddev; neither sample of a flat-topped maximum, nor the
   first or the last index, is returned, and the list is empty for n < 3 *)
C22_FindPeaks ==
    Analyzed =>
        \E filtered \in {HeartFiltered} :
        \E threshold \in {IF Len(filtered) = 0 THEN NaN ELSE HeartThreshold} :
            LET n == Len(filtered)
                peaks == locals.peaks
                IsPeak(i) == /\ 1 <= i /\ i <= n - 2
                             /\ Gt(filtered[i + 1], filtered[i])
                             /\ Gt(filtered[i + 1], filtered[i + 2])
                             /\ Gt(filtered[i + 1], threshold)
            IN  /\ \A k \in 1..(Len(peaks) - 1) : peaks[k] < peaks[k + 1]
                /\ \A k \in 1..Len(peaks) : IsPeak(peaks[k])
                /\ \A i \in 0..(n - 1) : IsPeak(i) => \E k \in 1..Len(peaks) : peaks[k] = i
                /\ \A k \in 1..Len(peaks) : peaks[k] /= 0 /\ peaks[k] /= n - 1
                /\ (n < 3) => (peaks = <<>>)

(* a maximum with two equal top samples above the threshold, neither returned *)
C22_Witness ==
    /\ Analyzed
    /\ Len(frames) >= 4
    /\ \E i \in 1..(Len(frames) - 3) :
           /\ HeartFiltered[i + 1] = HeartFiltered[i + 2]
           /\ Gt(HeartFiltered[i + 1], HeartFiltered[i])
           /\ Gt(HeartFiltered[i + 2], HeartFiltered[i + 3])
           /\ Gt(HeartFiltered[i + 1], HeartThreshold)
           /\ \A k \in 1..Len(locals.peaks) : locals.peaks[k] \notin {i, i + 1}

(* the series findPeaksWithMinDistance is given by detectRespiratoryRate, its
   threshold and its minimum distance *)
BreathFiltered ==
    bandpassFilter(Green, Rat(2, 10), Rat(5, 10), Num(frameRate)) \o <<>>
BreathThresholdOf(filtered) ==
    Add(calculateMean(filtered), Mul(calculateStdDev(filtered), Rat(15, 10)))
BreathDistance == MathFloor(Mul(Num(frameRate), Rat(15, 10)))[1]

(* the strict local maxima of BreathFiltered above BreathThreshold, as indices
   of the code *)
BreathCandidates ==
    UNION {UNION {{i \in 1..(Len(filtered) - 2) :
                       /\ Gt(filtered[i + 1], filtered[i])
                       /\ Gt(filtered[i + 1], filtered[i + 2])
                       /\ Gt(filtered[i + 1], threshold)} :
                  threshold \in {IF Len(filtered) = 0 THEN NaN
                                 ELSE BreathThresholdOf(filtered)}} :
           filtered \in {BreathFiltered}}

(* C23: in the list findPeaksWithMinDistance returns every index is a strict
   local maximum above threshold, the indices ascend and consecutive ones differ
   by at least minDistance; a candidate is accepted exactly when its distance to
   the last accepted index is at least minDistance, and the first candidate of
   the series is always accepted *)
C23_MinDistancePeaks ==
    Analyzed =>
        \E candidates \in {BreathCandidates} :
            LET peaks == locals.breathPeaks
                accepted == {peaks[k] : k \in 1..Len(peaks)}
                LastAccepted(i) ==
                    IF \E p \in accepted : p < i
                    THEN CHOOSE p \in accepted :
                             p < i /\ \A q \in accepted : q < i => q <= p
                    ELSE -BreathDistance
            IN  /\ accepted \subseteq candidates
                /\ \A k \in 1..(Len(peaks) - 1) :
                       /\ peaks[k] < peaks[k + 1]
                       /\ peaks[k + 1] - peaks[k] >= BreathDistance
                /\ \A i \in candidates :
                       (i \in accepted) <=> (i - LastAccepted(i) >= BreathDistance)
                /\ \A i \in candidates :
                       (\A j \in candidates : i <= j) => i \in accepted

(* a candidate nearer than minDistance to the accepted one before it has been
   left out, and a later one accepted *)
C23_Witness ==
    /\ Analyzed
    /\ Len(locals.breathPeaks) >= 2
    /\ \E i \in BreathCandidates :
           /\ \A k \in 1..Len(locals.breathPeaks) : locals.breathPeaks[k] /= i
           /\ i < locals.breathPeaks[Len(locals.breathPeaks)]

(* the intervals within [0.5, 1.5] x their mean, the bounds included *)
ClosedRangeIntervals(intervals) ==
    LET avgInterval == Div(SumOf(intervals), Num(Len(intervals)))
    IN  SelectSeq(intervals,
                  LAMBDA interval :
                      /\ Ge(interval, Mul(avgInterval, Rat(5, 10)))
                      /\ Le(interval, Mul(avgInterval, Rat(15, 10))))

(* C24: the outlier removal of detectRespiratoryRate discards exactly the
   intervals outside [0.5, 1.5] x mean interval: an interval equal to a bound is
   kept and counts in the final mean, and the default 14 is returned only if
   fewer than 2 intervals are kept *)
C24_OutlierRemoval ==
    (Analyzed /\ Len(locals.breathPeaks) >= 3) =>
        LET kept == ClosedRangeIntervals(PeakIntervals(locals.breathPeaks))
            rate == MathRound(Div(Num(60 * frameRate), calculateMean(kept)))
        IN  results.respiratoryRate =
                IF Len(kept) < 2 THEN Num(14)
                ELSE MathMax(Num(8), MathMin(Num(25), rate))

(* a historical value is present: the record has the field, and not as null *)
Present(v) == v /= Null /\ v /= Undefined

(* the fields that resolve: the live estimate is non-null, or else the
   historical value is present (blood pressure: both components) *)
FieldsWithValue(res, hist) ==
    {f \in {"heartRate", "spo2", "respiratoryRate", "temperature", "bloodPressure"} :
        CASE f = "heartRate" -> res.heartRate /= Null \/ Present(hist.heart_rate)
          [] f = "spo2" -> res.spo2 /= Null \/ Present(hist.spo2)
          [] f = "respiratoryRate" ->
                 res.respiratoryRate /= Null \/ Present(hist.respiratory_rate)
          [] f = "temperature" -> res.temperature /= Null \/ Present(hist.temperature)
          [] f = "bloodPressure" ->
                 /\ \/ res.bloodPressure.systolic /= Null
                    \/ Present(hist.blood_pressure_systolic)
                 /\ \/ res.bloodPressure.diastolic /= Null
                    \/ Present(hist.blood_pressure_diastolic)}

(* C25: calculateHealthScore resolves each of the five fields on its own, to the
   live estimate if that is non-null, else to the historical value if present,
   else the field is left out; a field with no live estimate and a historical
   value always gives a sub-score, and the score is the rounded average over
   exactly the resolved fields *)
C25_FieldsResolved ==
    (pc = "scored") =>
        LET fields == FieldsWithValue(results, historicalData)
            scores == SubScores(results, historicalData)
        IN  /\ Len(scores) = Cardinality(fields)
            /\ (fields /= {}) =>
                   results.healthScore = MathRound(Rat(SumInts(scores, 1), Len(scores)))

(* C26: the centre region a forced start assigns to faceRegion stays in effect
   for the scan: the detectFace loop does not clear it, so every capture
   callback of the forced scan finds a face region and appends a sample *)
C26_ForcedRegionKept ==
    [][(faceRegion = "forced" /\ isScanning /\ isScanning') => (faceRegion' /= "null")]_vars

(* the scan in progress can end before the clock of the model does *)
WithinHorizon == startTime + ScanTicks <= MaxTime

(* C27: a scan that startScan has started and stopScan does not cancel reaches
   completeScan once the elapsed time is at least scanDuration; completeScan
   and analyzeVitals run once for it, at no earlier time, and after them
   isScanning is false and no capture callback is left to go on *)
C27_ScanCompletes ==
    /\ (isScanning /\ WithinHorizon) ~>
           (~isScanning \/ ~WithinHorizon)
    /\ [][completeScan => (isScanning /\ ScanOver /\ ~isScanning' /\ timers' = <<>>)]_vars

(* C28: the reading of one completed scan is sent at most once: saveResults
   sends no request while an earlier one is in flight, nor after one has
   succeeded and the page has not reloaded yet *)
C28_SavedAtMostOnce ==
    [][(Len(saves') > Len(saves)) => (saves = <<>> /\ page = "open")]_vars

(* C29: no stream obtained by startCamera is left running without this.stream
   referring to it: a stream is never replaced while its tracks run, and after
   stopCamera no track of an earlier stream runs *)
C29_StreamsReleased == openStreams \subseteq {stream}

(* C30: startScan sets isScanning (and schedules its capture callback) only
   when a face is detected on the camera stream that is active, or when the
   user has confirmed the forced start *)
C30_ScanNeedsFaceOrForce ==
    [][(Len(timers') > Len(timers)) =>
           ((stream /= 0 /\ faceDetected') \/ faceRegion' = "forced")]_vars

====
